---- MODULE Spec2Model ----
(***************************************************************************)
(* WhatCMS enrichment pipeline: the API client (fetch_cms_data,            *)
(* _parse_response, _extract_category_data, _clean_tech_category) and the  *)
(* orchestrator (enrich_urls, enrich_dataframe, run_enrichment_workflow).  *)
(*                                                                         *)
(* Python strings are modelled as sequences of one-character strings, so   *)
(* that join, lower, replace and f-string formatting are computed          *)
(* character by character.                                                 *)
(***************************************************************************)
EXTENDS Integers, Sequences, FiniteSets, TLC

VARIABLES
    pc,            \* position inside run_enrichment_workflow
    df,            \* the loaded input table: [column, urls]
    idx,           \* number of URLs enrich_urls has iterated over
    results,       \* enrich_urls: the list of WhatCMSResponse collected
    callLog,       \* history: one entry per fetch_cms_data invocation
    closeCount,    \* history: number of session.close() calls
    raised,        \* the exception run_enrichment_workflow propagated, if any
    enriched_df,   \* rows produced by _responses_to_dataframe
    saved,         \* rows written by save_output
    data,          \* parser run: the body of one HTTP 200 response
    response_obj,  \* parser run: the record fetch_cms_data returned
    fetched,       \* parser run: "pending", then how fetch_cms_data ended
    technologies,  \* normaliser run: input of _clean_tech_category
    tech_category, \* normaliser run: its result
    cleaned        \* normaliser run: _clean_tech_category has returned

vars == <<pc, df, idx, results, callLog, closeCount, raised, enriched_df, saved,
          data, response_obj, fetched, technologies, tech_category, cleaned>>

workflowVars == <<pc, df, idx, results, callLog, closeCount, raised, enriched_df, saved>>
parserVars == <<data, response_obj, fetched>>
cleanVars == <<technologies, tech_category, cleaned>>

-----------------------------------------------------------------------------
(* Bounds of the model *)

MaxUrls == 3
MaxEntries == 2
MaxCleanLabels == 2
MaxLabelLen == 2

-----------------------------------------------------------------------------
(* Python string primitives *)

UpperChars == <<"A", "B", "C", "D", "E", "F", "G", "H", "I", "J", "K", "L", "M", "N", "O", "P", "Q", "R", "S", "T", "U", "V", "W", "X", "Y", "Z">>
LowerChars == <<"a", "b", "c", "d", "e", "f", "g", "h", "i", "j", "k", "l", "m", "n", "o", "p", "q", "r", "s", "t", "u", "v", "w", "x", "y", "z">>
DigitChars == <<"0", "1", "2", "3", "4", "5", "6", "7", "8", "9">>

\* str.lower() on one character
LowerChar(c) ==
    IF \E k \in DOMAIN UpperChars : UpperChars[k] = c
    THEN LowerChars[CHOOSE k \in DOMAIN UpperChars : UpperChars[k] = c]
    ELSE c

\* str.lower()
StrLower(s) == [k \in 1..Len(s) |-> LowerChar(s[k])]

\* str.replace(c, "")
StrRemoveChar(s, c) == SelectSeq(s, LAMBDA x : x # c)

\* str.replace(a, b) for one-character a and b
StrReplaceChar(s, a, b) == [k \in 1..Len(s) |-> IF s[k] = a THEN b ELSE s[k]]

\* sep.join(parts)
RECURSIVE StrJoin(_, _)
StrJoin(sep, parts) ==
    IF Len(parts) = 0 THEN <<>>
    ELSE IF Len(parts) = 1 THEN parts[1]
    ELSE parts[1] \o sep \o StrJoin(sep, Tail(parts))

\* str(n) for a non-negative integer
RECURSIVE IntToStr(_)
IntToStr(n) ==
    IF n < 10 THEN <<DigitChars[n + 1]>>
    ELSE IntToStr(n \div 10) \o <<DigitChars[(n % 10) + 1]>>

StartsWith(s, prefix) ==
    /\ Len(s) >= Len(prefix)
    /\ SubSeq(s, 1, Len(prefix)) = prefix

-----------------------------------------------------------------------------
(* _clean_tech_category *)

CleanNoLower(techs) ==
    StrReplaceChar(StrRemoveChar(StrJoin(<<"_">>, techs), "-"), " ", "_")

\* "_".join(technologies).lower().replace("-", "").replace(" ", "_")
CleanTechCategory(techs) ==
    StrReplaceChar(StrRemoveChar(StrLower(StrJoin(<<"_">>, techs)), "-"), " ", "_")

-----------------------------------------------------------------------------
(* String literals of the source, and the messages of the Python exceptions *)
(* its statements raise                                                     *)

S_Error == <<"E", "r", "r", "o", "r", ":", " ">>
S_ParseError == <<"P", "a", "r", "s", "e", " ", "e", "r", "r", "o", "r", ":", " ">>
S_Dash == <<" ", "-", " ">>
S_None == <<"N", "o", "n", "e">>
S_CommaSpace == <<",", " ">>
K_blog_cms == <<"b", "l", "o", "g", "_", "c", "m", "s">>
K_ecommerce_cms == <<"e", "c", "o", "m", "m", "e", "r", "c", "e", "_", "c", "m", "s">>
K_programming_language == <<"p", "r", "o", "g", "r", "a", "m", "m", "i", "n", "g", "_", "l", "a", "n", "g", "u", "a", "g", "e">>
K_database == <<"d", "a", "t", "a", "b", "a", "s", "e">>
K_cdn == <<"c", "d", "n">>
K_web_server == <<"w", "e", "b", "_", "s", "e", "r", "v", "e", "r">>
K_landing_page_builder_cms == <<"l", "a", "n", "d", "i", "n", "g", "_", "p", "a", "g", "e", "_", "b", "u", "i", "l", "d", "e", "r", "_", "c", "m", "s">>
K_operating_system == <<"o", "p", "e", "r", "a", "t", "i", "n", "g", "_", "s", "y", "s", "t", "e", "m">>
K_web_framework == <<"w", "e", "b", "_", "f", "r", "a", "m", "e", "w", "o", "r", "k">>
M_NoGetList == <<"'", "l", "i", "s", "t", "'", " ", "o", "b", "j", "e", "c", "t", " ", "h", "a", "s", " ", "n", "o", " ", "a", "t", "t", "r", "i", "b", "u", "t", "e", " ", "'", "g", "e", "t", "'">>
M_NoGetStr == <<"'", "s", "t", "r", "'", " ", "o", "b", "j", "e", "c", "t", " ", "h", "a", "s", " ", "n", "o", " ", "a", "t", "t", "r", "i", "b", "u", "t", "e", " ", "'", "g", "e", "t", "'">>
M_JoinIterable == <<"c", "a", "n", " ", "o", "n", "l", "y", " ", "j", "o", "i", "n", " ", "a", "n", " ", "i", "t", "e", "r", "a", "b", "l", "e">>
M_SeqItem == <<"s", "e", "q", "u", "e", "n", "c", "e", " ", "i", "t", "e", "m", " ">>
M_ExpectedStr == <<":", " ", "e", "x", "p", "e", "c", "t", "e", "d", " ", "s", "t", "r", " ", "i", "n", "s", "t", "a", "n", "c", "e", ",", " ", "i", "n", "t", " ", "f", "o", "u", "n", "d">>
M_Concat == <<"c", "a", "n", " ", "o", "n", "l", "y", " ", "c", "o", "n", "c", "a", "t", "e", "n", "a", "t", "e", " ", "s", "t", "r", " ", "(", "n", "o", "t", " ", "\"", "i", "n", "t", "\"", ")", " ", "t", "o", " ", "s", "t", "r">>
M_Json == <<"E", "x", "p", "e", "c", "t", "i", "n", "g", " ", "v", "a", "l", "u", "e">>
M_Timeout == <<"R", "e", "a", "d", " ", "t", "i", "m", "e", "d", " ", "o", "u", "t", ".">>
FieldNames ==
    {"blog_cms", "ecommerce_cms", "programming_language", "database", "cdn",
     "web_server", "landing_page_builder_cms", "operating_system", "web_framework"}

-----------------------------------------------------------------------------
(* JSON values and Python exceptions *)

\* a scalar JSON value, or the absence of the key
Absent == [t |-> "absent", s |-> <<>>]
Null == [t |-> "null", s |-> <<>>]
StrVal(s) == [t |-> "str", s |-> s]
IntVal(n) == [t |-> "int", s |-> IntToStr(n)]

\* f"{v}" and str(v), with an absent key read as the default None
PyFormat(v) == IF v.t \in {"absent", "null"} THEN S_None ELSE v.s

\* bool(v), as in "if version"
Truthy(v) ==
    \/ v.t = "str" /\ v.s # <<>>
    \/ v.t = "int" /\ v.s # <<"0">>

NoExc == [raised |-> FALSE, msg |-> <<>>]
Exc(m) == [raised |-> TRUE, msg |-> m]

-----------------------------------------------------------------------------
(* WhatCMSResponse *)

WhatCMSResponse(url) ==
    [url |-> url,
     whatcms_link |-> StrVal(<<>>),
     blog_cms |-> <<>>,
     ecommerce_cms |-> <<>>,
     programming_language |-> <<>>,
     database |-> <<>>,
     cdn |-> <<>>,
     web_server |-> <<>>,
     landing_page_builder_cms |-> <<>>,
     operating_system |-> <<>>,
     web_framework |-> <<>>,
     whatcms_response |-> <<>>]

-----------------------------------------------------------------------------
(* _extract_category_data *)

\* the value of category.get("categories", [])
CategoriesOf(category) ==
    IF category.categories.t = "absent"
    THEN [t |-> "list", items |-> <<>>]
    ELSE category.categories

FirstNonStr(items) == CHOOSE k \in 1..Len(items) :
    /\ items[k].t # "str"
    /\ \A j \in 1..(k - 1) : items[j].t = "str"

\* the TypeError "_".join(technologies) raises, if any
JoinError(techs) ==
    IF techs.t \in {"null", "int"} THEN Exc(M_JoinIterable)
    ELSE IF \E k \in 1..Len(techs.items) : techs.items[k].t # "str"
    THEN Exc(M_SeqItem \o IntToStr(FirstNonStr(techs.items) - 1) \o M_ExpectedStr)
    ELSE NoExc

LabelsOf(techs) == [k \in 1..Len(techs.items) |-> techs.items[k].s]

TechStringAlwaysVersion(name, version) == PyFormat(name) \o <<" ">> \o version.s

\* f"{name}{" " + version if version else ""}"
TechString(name, version) ==
    PyFormat(name) \o (IF Truthy(version) THEN <<" ">> \o version.s ELSE <<>>)

\* the if/elif chain: append tech_string to the field tech_category names
AppendToField(obj, tech_category_, tech_string) ==
    IF tech_category_ = K_blog_cms
    THEN [obj EXCEPT !.blog_cms = Append(@, tech_string)]
    ELSE IF tech_category_ = K_ecommerce_cms
    THEN [obj EXCEPT !.ecommerce_cms = Append(@, tech_string)]
    ELSE IF tech_category_ = K_programming_language
    THEN [obj EXCEPT !.programming_language = Append(@, tech_string)]
    ELSE IF tech_category_ = K_database
    THEN [obj EXCEPT !.database = Append(@, tech_string)]
    ELSE IF tech_category_ = K_cdn
    THEN [obj EXCEPT !.cdn = Append(@, tech_string)]
    ELSE IF tech_category_ = K_web_server
    THEN [obj EXCEPT !.web_server = Append(@, tech_string)]
    ELSE IF tech_category_ = K_landing_page_builder_cms
    THEN [obj EXCEPT !.landing_page_builder_cms = Append(@, tech_string)]
    ELSE IF tech_category_ = K_operating_system
    THEN [obj EXCEPT !.operating_system = Append(@, tech_string)]
    ELSE IF tech_category_ = K_web_framework
    THEN [obj EXCEPT !.web_framework = Append(@, tech_string)]
    ELSE obj

\* returns [exc, obj]: the exception raised, if any, and response_obj afterwards
ExtractCategoryData(obj, category) ==
    IF ~category.isDict
    THEN [exc |-> Exc(M_NoGetStr), obj |-> obj]
    ELSE LET name == category.name
             version == category.version
             techs == CategoriesOf(category)
         IN  IF JoinError(techs).raised
             THEN [exc |-> JoinError(techs), obj |-> obj]
             ELSE IF Truthy(version) /\ version.t # "str"
             THEN [exc |-> Exc(M_Concat), obj |-> obj]
             ELSE [exc |-> NoExc,
                   obj |-> AppendToField(obj, CleanTechCategory(LabelsOf(techs)),
                                         TechString(name, version))]

-----------------------------------------------------------------------------
(* _parse_response *)

RECURSIVE WalkSkipErrors(_, _, _)
WalkSkipErrors(obj, categories, k) ==
    IF k > Len(categories) THEN obj
    ELSE WalkSkipErrors(ExtractCategoryData(obj, categories[k]).obj, categories, k + 1)

RECURSIVE WalkDiscard(_, _, _)
WalkDiscard(obj, categories, k) ==
    IF k > Len(categories) THEN obj
    ELSE LET step == ExtractCategoryData(obj, categories[k])
         IN  IF step.exc.raised
             THEN [WhatCMSResponse(obj.url) EXCEPT
                      !.whatcms_link = obj.whatcms_link,
                      !.whatcms_response = S_ParseError \o step.exc.msg]
             ELSE WalkDiscard(step.obj, categories, k + 1)

\* the for loop over categories, from element k on; an exception leaves the
\* loop and is handled by the except clause of _parse_response
RECURSIVE WalkCategories(_, _, _)
WalkCategories(obj, categories, k) ==
    IF k > Len(categories) THEN obj
    ELSE LET step == ExtractCategoryData(obj, categories[k])
         IN  IF step.exc.raised
             THEN [step.obj EXCEPT !.whatcms_response = S_ParseError \o step.exc.msg]
             ELSE WalkCategories(step.obj, categories, k + 1)

ParseResponse(url, d) ==
    IF d.kind # "dict"
    THEN [WhatCMSResponse(url) EXCEPT !.whatcms_response = S_ParseError \o M_NoGetList]
    ELSE LET linked == [WhatCMSResponse(url) EXCEPT
                           !.whatcms_link = IF d.request.t = "absent" THEN Null ELSE d.request]
             result == d.result
         IN  IF result.t \in {"absent", "dict"}
             THEN LET noted == [linked EXCEPT !.whatcms_response =
                                   PyFormat(result.code) \o S_Dash \o PyFormat(result.msg)]
                  IN  IF d.results.t = "absent" THEN noted
                      ELSE IF d.results.t = "list"
                      THEN WalkCategories(noted, d.results.items, 1)
                      ELSE noted
             ELSE [linked EXCEPT !.whatcms_response = PyFormat(result)]

-----------------------------------------------------------------------------
(* fetch_cms_data *)

HTTP_OK == 200

M_Defect == <<"d", "e", "f", "e", "c", "t">>

ErrorRecordParsePrefix(url, detail) ==
    [WhatCMSResponse(url) EXCEPT !.whatcms_response = S_ParseError \o detail]

\* response_obj.whatcms_response = f"Error: {detail}" on a fresh record
ErrorRecord(url, detail) ==
    [WhatCMSResponse(url) EXCEPT !.whatcms_response = S_Error \o detail]

\* An outcome is what the world does to one call: "defect" is an exception
\* raised outside the try block (building the record, line 55), "transport"
\* is session.get raising a RequestException, "response" is an HTTP response
\* with a status and a body.
\* Returns [exc, record, requests, sleeps]: the exception that leaves the
\* call (if any), the record returned, and how many times session.get and
\* time.sleep ran.
FetchCmsData(url, o) ==
    IF o.kind = "defect"
    THEN [exc |-> Exc(M_Defect), record |-> WhatCMSResponse(url),
          requests |-> 0, sleeps |-> 0]
    ELSE IF o.kind = "transport"
    THEN [exc |-> NoExc, record |-> ErrorRecord(url, o.msg),
          requests |-> 1, sleeps |-> 0]
    ELSE IF o.status # HTTP_OK
    THEN [exc |-> NoExc, record |-> ErrorRecord(url, IntToStr(o.status)),
          requests |-> 1, sleeps |-> 1]
    ELSE IF o.body.kind = "undecodable"
    THEN [exc |-> NoExc, record |-> ErrorRecord(url, M_Json),
          requests |-> 1, sleeps |-> 1]
    ELSE [exc |-> NoExc, record |-> ParseResponse(url, o.body),
          requests |-> 1, sleeps |-> 1]

-----------------------------------------------------------------------------
(* Response bodies *)

N_Ng == <<"N", "g">>
V_1 == <<"1">>
U_Link == <<"l", "n", "k">>
R_Success == <<"S", "u", "c", "c", "e", "s", "s">>
R_Err == <<"e", "r", "r">>
L_Blog == <<"B", "l", "o", "g">>
L_CMS == <<"C", "M", "S">>
L_Ecommerce == <<"E", "-", "c", "o", "m", "m", "e", "r", "c", "e">>
L_ProgrammingLanguage == <<"P", "r", "o", "g", "r", "a", "m", "m", "i", "n", "g", " ", "L", "a", "n", "g", "u", "a", "g", "e">>
L_Database == <<"D", "a", "t", "a", "b", "a", "s", "e">>
L_CDN == <<"C", "D", "N">>
L_Web == <<"W", "e", "b">>
L_Server == <<"S", "e", "r", "v", "e", "r">>
L_LandingPageBuilder == <<"L", "a", "n", "d", "i", "n", "g", " ", "P", "a", "g", "e", " ", "B", "u", "i", "l", "d", "e", "r">>
L_OperatingSystem == <<"O", "p", "e", "r", "a", "t", "i", "n", "g", " ", "S", "y", "s", "t", "e", "m">>
L_WebFramework == <<"W", "e", "b", " ", "F", "r", "a", "m", "e", "w", "o", "r", "k">>
L_Analytics == <<"A", "n", "a", "l", "y", "t", "i", "c", "s">>

StrList(labels) == [t |-> "list", items |-> [k \in 1..Len(labels) |-> StrVal(labels[k])]]
CharList(s) == [t |-> "str", items |-> [k \in 1..Len(s) |-> StrVal(<<s[k]>>)]]
NoList(tag) == [t |-> tag, items |-> <<>>]

DictEntry(name, version, categories) ==
    [isDict |-> TRUE, name |-> name, version |-> version, categories |-> categories]
NonDictEntry ==
    [isDict |-> FALSE, name |-> Absent, version |-> Absent, categories |-> NoList("absent")]

\* label lists of the nine schema fields, of an unknown category, and none
CategoryLists ==
    { <<L_Blog, L_CMS>>, <<L_Ecommerce, L_CMS>>, <<L_ProgrammingLanguage>>, <<L_Database>>,
      <<L_CDN>>, <<L_Web, L_Server>>, <<L_LandingPageBuilder, L_CMS>>, <<L_OperatingSystem>>,
      <<L_WebFramework>>, <<L_Analytics>>, <<>> }

\* those of them that are combined with every version
VersionedCategoryLists == { <<L_Ecommerce, L_CMS>>, <<L_CDN>>, <<L_Analytics>> }

WellFormedEntries ==
    { DictEntry(StrVal(N_Ng), Absent, StrList(c)) : c \in CategoryLists } \cup
    { DictEntry(StrVal(N_Ng), v, StrList(c)) :
        v \in {StrVal(<<>>), StrVal(V_1)}, c \in VersionedCategoryLists }

\* entries that deviate from the documented shape in one place
DeviantEntries ==
    { NonDictEntry,
      DictEntry(Absent, Absent, StrList(<<L_CDN>>)),
      DictEntry(IntVal(7), Absent, StrList(<<L_CDN>>)),
      DictEntry(StrVal(N_Ng), IntVal(5), StrList(<<L_CDN>>)),
      DictEntry(StrVal(N_Ng), IntVal(0), StrList(<<L_CDN>>)),
      DictEntry(StrVal(N_Ng), Null, StrList(<<L_CDN>>)),
      DictEntry(StrVal(N_Ng), Absent, NoList("absent")),
      DictEntry(StrVal(N_Ng), Absent, NoList("null")),
      DictEntry(StrVal(N_Ng), Absent, NoList("int")),
      DictEntry(StrVal(N_Ng), Absent, CharList(K_cdn)),
      DictEntry(StrVal(N_Ng), Absent,
                [t |-> "list", items |-> <<StrVal(L_CDN), IntVal(7)>>]) }

Entries == WellFormedEntries \cup DeviantEntries

EntryLists == UNION {[1..n -> Entries] : n \in 0..MaxEntries}

ResultDict(code, msg) == [t |-> "dict", s |-> <<>>, code |-> code, msg |-> msg]
ResultScalar(v) == [t |-> v.t, s |-> v.s, code |-> Absent, msg |-> Absent]

ResultValues ==
    { ResultDict(IntVal(200), StrVal(R_Success)), ResultDict(Absent, Absent),
      ResultScalar(Absent), ResultScalar(Null), ResultScalar(StrVal(R_Err)) }

DictBody(request, result, categories) ==
    [kind |-> "dict", request |-> request, result |-> result, results |-> categories]
OtherBody(kind) ==
    [kind |-> kind, request |-> Absent, result |-> ResultScalar(Absent),
     results |-> NoList("absent")]

\* bodies of the documented top-level shape, with every bounded results list
ListBodies ==
    { DictBody(StrVal(U_Link), ResultDict(IntVal(200), StrVal(R_Success)),
               [t |-> "list", items |-> l]) : l \in EntryLists }

\* bodies whose top level deviates: not JSON, not a mapping, keys missing or
\* of another type
TopLevelBodies ==
    { OtherBody("undecodable"), OtherBody("list") } \cup
    { DictBody(rq, rs, c) :
        rq \in {Absent, StrVal(U_Link)},
        rs \in ResultValues,
        c \in { NoList("absent"), NoList("null"), NoList("dict"),
                [t |-> "list", items |-> <<DictEntry(StrVal(N_Ng), Absent, StrList(<<L_CDN>>))>>],
                [t |-> "list", items |-> <<NonDictEntry>>] } }

Bodies == ListBodies \cup TopLevelBodies

Response(status, body) == [kind |-> "response", status |-> status, body |-> body, msg |-> <<>>]
Transport(msg) == [kind |-> "transport", status |-> 0, body |-> OtherBody("undecodable"), msg |-> msg]
Defect == [kind |-> "defect", status |-> 0, body |-> OtherBody("undecodable"), msg |-> <<>>]

-----------------------------------------------------------------------------
(* Values of the variables a run does not use *)

NoTable == [column |-> "none", urls |-> <<>>]
NotSaved == [written |-> FALSE, rows |-> <<>>]

IdleWorkflow ==
    /\ pc = "idle"
    /\ df = NoTable
    /\ idx = 0
    /\ results = <<>>
    /\ callLog = <<>>
    /\ closeCount = 0
    /\ raised = NoExc
    /\ enriched_df = <<>>
    /\ saved = NotSaved

IdleParser ==
    /\ data = <<>>
    /\ response_obj = <<>>
    /\ fetched = "idle"

IdleClean ==
    /\ technologies = <<>>
    /\ tech_category = <<>>
    /\ cleaned = FALSE

-----------------------------------------------------------------------------
(* Parser run: fetch_cms_data on one HTTP 200 response with a bounded body *)

ParserUrl == <<"a", ".", "c", "o", "m">>

InitParse ==
    /\ IdleWorkflow
    /\ IdleClean
    /\ data \in Bodies
    /\ response_obj = WhatCMSResponse(ParserUrl)
    /\ fetched = "pending"

FetchOk ==
    /\ fetched = "pending"
    /\ LET r == FetchCmsData(ParserUrl, Response(HTTP_OK, data))
       IN  /\ response_obj' = r.record
           /\ fetched' = IF r.exc.raised THEN "raised" ELSE "returned"
    /\ UNCHANGED <<data, workflowVars, cleanVars>>

NextParse == FetchOk

SpecParse == InitParse /\ [][NextParse]_vars

-----------------------------------------------------------------------------
(* Claims about the parser run *)

KeyOf ==
    [blog_cms |-> K_blog_cms,
     ecommerce_cms |-> K_ecommerce_cms,
     programming_language |-> K_programming_language,
     database |-> K_database,
     cdn |-> K_cdn,
     web_server |-> K_web_server,
     landing_page_builder_cms |-> K_landing_page_builder_cms,
     operating_system |-> K_operating_system,
     web_framework |-> K_web_framework]

StatusNote == response_obj.whatcms_response

WellFormedEntry(e) ==
    /\ e.isDict
    /\ e.name.t = "str"
    /\ e.version.t \in {"absent", "str"}
    /\ e.categories.t = "list"
    /\ \A k \in 1..Len(e.categories.items) : e.categories.items[k].t = "str"

WellFormedBody(d) ==
    /\ d.kind = "dict"
    /\ d.request.t = "str"
    /\ d.result.t = "dict"
    /\ d.result.code.t = "int"
    /\ d.result.msg.t = "str"
    /\ d.results.t = "list"
    /\ \A k \in 1..Len(d.results.items) : WellFormedEntry(d.results.items[k])

\* an element of results on which extraction raises
EntryRaises(e) ==
    \/ ~e.isDict
    \/ e.categories.t \in {"null", "int"}
    \/ \E k \in 1..Len(e.categories.items) : e.categories.items[k].t # "str"
    \/ e.version.t = "int" /\ e.version.s # <<"0">>

\* the body is one whose results list is walked
WalkReached(d) ==
    /\ d.kind = "dict"
    /\ d.result.t \in {"absent", "dict"}
    /\ d.results.t = "list"

SomeEntryRaises(d) ==
    /\ WalkReached(d)
    /\ \E k \in 1..Len(d.results.items) : EntryRaises(d.results.items[k])

FirstRaising(items) == CHOOSE k \in 1..Len(items) :
    /\ EntryRaises(items[k])
    /\ \A j \in 1..(k - 1) : ~EntryRaises(items[j])

KeyOfEntry(e) == CleanTechCategory(LabelsOf(CategoriesOf(e)))

ComposedAsStated(e) ==
    IF e.version.t = "absent" THEN e.name.s ELSE e.name.s \o <<" ">> \o e.version.s

ComposedAmended(e) ==
    IF e.version.t = "absent" \/ e.version.s = <<>>
    THEN e.name.s
    ELSE e.name.s \o <<" ">> \o e.version.s

ComposedByCode(e) == TechString(e.name, e.version)

\* the composed strings, in order, of the entries whose key is field f's key
ExpectedField(entries, f, Composed(_)) ==
    LET sel == SelectSeq(entries, LAMBDA e : KeyOfEntry(e) = KeyOf[f])
    IN  [k \in 1..Len(sel) |-> Composed(sel[k])]

RECURSIVE SumLen(_, _)
SumLen(rec, fs) ==
    IF fs = {} THEN 0
    ELSE LET f == CHOOSE x \in fs : TRUE
         IN  Len(rec[f]) + SumLen(rec, fs \ {f})

RecognisedCount(entries) ==
    Cardinality({k \in 1..Len(entries) : \E f \in FieldNames : KeyOfEntry(entries[k]) = KeyOf[f]})

\* C8 (as stated): for a well-formed body each field is the sequence, in
\* payload order, of the composed strings of the entries with that field's
\* key, where the composed string is the name when the version is absent and
\* otherwise name, space, version.
C8_AsStated ==
    (fetched = "returned" /\ WellFormedBody(data)) =>
        \A f \in FieldNames :
            response_obj[f] = ExpectedField(data.results.items, f, ComposedAsStated)

\* C8 (amended): as stated, except that the composed string is the name alone
\* when the version is absent or the empty string; every entry lands in at
\* most one field, entries with an unrecognised key change nothing and the
\* status note stays "<code> - <msg>".
C8_Amended ==
    (fetched = "returned" /\ WellFormedBody(data)) =>
        /\ \A f \in FieldNames :
              response_obj[f] = ExpectedField(data.results.items, f, ComposedAmended)
        /\ SumLen(response_obj, FieldNames) = RecognisedCount(data.results.items)
        /\ StatusNote = data.result.code.s \o S_Dash \o data.result.msg.s

\* two entries of one category and one unrecognised entry
C8_Witness ==
    /\ fetched = "returned"
    /\ WellFormedBody(data)
    /\ Len(data.results.items) = 2
    /\ Len(response_obj.cdn) = 2
    /\ response_obj.cdn[1] # response_obj.cdn[2]

\* C9: when extraction raises at entry k, the fields hold exactly what the
\* entries before k contributed, nothing from k on, the status note is
\* "Parse error: <message>" and url and lookup link are kept.
C9_PartialKept ==
    (fetched = "returned" /\ SomeEntryRaises(data)) =>
        LET items == data.results.items
            k == FirstRaising(items)
        IN  /\ \A f \in FieldNames :
                  response_obj[f] = ExpectedField(SubSeq(items, 1, k - 1), f, ComposedByCode)
            /\ StartsWith(StatusNote, S_ParseError)
            /\ Len(StatusNote) > Len(S_ParseError)
            /\ response_obj.url = ParserUrl
            /\ response_obj.whatcms_link =
                  (IF data.request.t = "absent" THEN Null ELSE data.request)

\* a value extracted before the failing entry is still in the record
C9_Witness ==
    /\ fetched = "returned"
    /\ SomeEntryRaises(data)
    /\ FirstRaising(data.results.items) = 2
    /\ response_obj.cdn # <<>>
    /\ StartsWith(StatusNote, S_ParseError)

\* a body that departs from the documented shape
Deviates(d) ==
    \/ d.kind # "dict"
    \/ /\ d.kind = "dict"
       /\ \/ d.result.t \in {"null", "str"}
          \/ d.results.t \in {"null", "dict"}
          \/ /\ d.results.t = "list"
             /\ \E k \in 1..Len(d.results.items) : ~WellFormedEntry(d.results.items[k])

\* C6 (as stated): on HTTP 200 every undecodable or misshapen body gives,
\* without raising, a record whose status note begins with "Parse error: ".
C6_AsStated ==
    (fetched # "pending" /\ Deviates(data)) =>
        /\ fetched = "returned"
        /\ StartsWith(StatusNote, S_ParseError)

\* C6 (amended): on HTTP 200 fetch_cms_data returns without raising for every
\* body; the note is "Parse error: <message>" when the decoded top level is
\* not a mapping or when the results list is walked and an element raises;
\* an undecodable body gives "Error: <message>", a result that is not a
\* mapping gives str(result), and every other deviation leaves
\* "<code> - <msg>".
C6_Amended ==
    fetched # "pending" =>
        /\ fetched = "returned"
        /\ (data.kind = "list" \/ SomeEntryRaises(data))
              => StartsWith(StatusNote, S_ParseError)
        /\ data.kind = "undecodable" => StatusNote = S_Error \o M_Json
        /\ (data.kind = "dict" /\ data.result.t \in {"null", "str"})
              => StatusNote = PyFormat(data.result)
        /\ (data.kind = "dict" /\ data.result.t \in {"absent", "dict"}
              /\ ~SomeEntryRaises(data))
              => StatusNote = PyFormat(data.result.code) \o S_Dash \o PyFormat(data.result.msg)

\* a non-mapping element of results has produced a parse-error record
C6_Witness ==
    /\ fetched = "returned"
    /\ data.kind = "dict"
    /\ data.results.t = "list"
    /\ \E k \in 1..Len(data.results.items) : ~data.results.items[k].isDict
    /\ StartsWith(StatusNote, S_ParseError)

-----------------------------------------------------------------------------
(* Normaliser run: _clean_tech_category applied to bounded label lists *)

W_Web == <<"W", "e", "b">>
W_Servers == <<"S", "e", "r", "v", "e", "r", "s">>
W_web_hyphen_servers == <<"w", "e", "b", "-", "s", "e", "r", "v", "e", "r", "s">>
W_Web_space_Servers == <<"W", "e", "b", " ", "S", "e", "r", "v", "e", "r", "s">>
W_web_servers == <<"w", "e", "b", "_", "s", "e", "r", "v", "e", "r", "s">>
W_webservers == <<"w", "e", "b", "s", "e", "r", "v", "e", "r", "s">>

LabelChars == {"W", "-", " "}

BoundedLabels == UNION {[1..n -> LabelChars] : n \in 0..MaxLabelLen}

ExampleLabelLists ==
    { <<W_Web, W_Servers>>, <<W_web_hyphen_servers>>, <<W_Web_space_Servers>> }

LabelLists ==
    UNION {[1..n -> BoundedLabels] : n \in 0..MaxCleanLabels} \cup ExampleLabelLists

InitClean ==
    /\ IdleWorkflow
    /\ IdleParser
    /\ technologies \in LabelLists
    /\ tech_category = <<>>
    /\ cleaned = FALSE

CleanCall ==
    /\ ~cleaned
    /\ tech_category' = CleanTechCategory(technologies)
    /\ cleaned' = TRUE
    /\ UNCHANGED <<technologies, workflowVars, parserVars>>

NextClean == CleanCall

SpecClean == InitClean /\ [][NextClean]_vars

\* variants of a label list that the normaliser is said not to distinguish
LowerLabels(techs) == [k \in 1..Len(techs) |-> StrLower(techs[k])]
MergedWithSpaces(techs) == <<StrJoin(<<" ">>, techs)>>
HyphensToSpaces(techs) == [k \in 1..Len(techs) |-> StrReplaceChar(techs[k], "-", " ")]
HyphensDeleted(techs) == [k \in 1..Len(techs) |-> StrRemoveChar(techs[k], "-")]

\* C7 (as stated): the result does not depend on letter case, on a hyphen
\* versus a space between words, or on splitting into separate labels; the
\* three example inputs all give web_servers; normalising a result again
\* returns it unchanged.
C7_AsStated ==
    cleaned =>
        /\ tech_category = CleanTechCategory(LowerLabels(technologies))
        /\ tech_category = CleanTechCategory(MergedWithSpaces(technologies))
        /\ tech_category = CleanTechCategory(HyphensToSpaces(technologies))
        /\ technologies \in ExampleLabelLists => tech_category = W_web_servers
        /\ CleanTechCategory(<<tech_category>>) = tech_category

\* C7 (amended): the result does not depend on letter case or on whether
\* words are separate labels or joined by a space inside one label; a hyphen
\* is deleted, not turned into a separator, so ["Web", "Servers"] and
\* ["Web Servers"] give web_servers and ["web-servers"] gives webservers;
\* normalising a result again returns it unchanged.
C7_Amended ==
    cleaned =>
        /\ tech_category = CleanTechCategory(LowerLabels(technologies))
        /\ tech_category = CleanTechCategory(MergedWithSpaces(technologies))
        /\ tech_category = CleanTechCategory(HyphensDeleted(technologies))
        /\ technologies \in {<<W_Web, W_Servers>>, <<W_Web_space_Servers>>}
              => tech_category = W_web_servers
        /\ technologies = <<W_web_hyphen_servers>> => tech_category = W_webservers
        /\ CleanTechCategory(<<tech_category>>) = tech_category

C7_Witness ==
    /\ cleaned
    /\ technologies = <<W_Web, W_Servers>>
    /\ tech_category = W_web_servers

-----------------------------------------------------------------------------
(* DataEnricher *)

M_Load == <<"l", "o", "a", "d">>
M_Column == <<"C", "o", "l", "u", "m", "n", " ", "'", "u", "r", "l", "'", " ", "n", "o", "t", " ", "f", "o", "u", "n", "d", " ", "i", "n", " ", "a", "t", "a", "F", "r", "a", "m", "e">>
M_Unsupported == <<"U", "n", "s", "u", "p", "p", "o", "r", "t", "e", "d", " ", "f", "o", "r", "m", "a", "t">>
M_Write == <<"w", "r", "i", "t", "e">>

\* the default url_column of enrich_dataframe and run_enrichment_workflow
UrlColumn == "url"

\* load_input_data: returns [exc, df]; a path that is neither .xlsx nor .csv
\* leaves df unbound, which raises like a failed read
LoadInputData(ext, readable, table) ==
    IF ext \in {"xlsx", "csv"} /\ readable
    THEN [exc |-> NoExc, df |-> table]
    ELSE [exc |-> Exc(M_Load), df |-> NoTable]

ColumnCheckMissing(table, column) == TRUE

\* url_column in df.columns
HasColumn(table, column) == table.column = column

EnrichOneSkipErrors(collected, r) ==
    IF r.exc.raised \/ StartsWith(r.record.whatcms_response, S_Error)
    THEN collected
    ELSE Append(collected, r.record)

EnrichOneAppendAlways(collected, r) == Append(collected, r.record)

\* one iteration of the loop of enrich_urls on the outcome r of fetch_cms_data
EnrichOne(collected, r) ==
    IF r.exc.raised THEN collected ELSE Append(collected, r.record)

\* ", ".join(values) if values else ""
JoinCell(values) == IF values # <<>> THEN StrJoin(S_CommaSpace, values) ELSE <<>>

\* one row of _responses_to_dataframe
Row(r) ==
    [c \in {"url", "whatcms_link", "Blog_CMS", "E-commerce_CMS", "Programming_Language",
            "Database", "CDN", "Web_Server", "Landing_Page_Builder_CMS",
            "Operating_System", "Web_Framework", "whatcms_response"} |->
        CASE c = "url" -> StrVal(r.url)
          [] c = "whatcms_link" -> r.whatcms_link
          [] c = "Blog_CMS" -> StrVal(JoinCell(r.blog_cms))
          [] c = "E-commerce_CMS" -> StrVal(JoinCell(r.ecommerce_cms))
          [] c = "Programming_Language" -> StrVal(JoinCell(r.programming_language))
          [] c = "Database" -> StrVal(JoinCell(r.database))
          [] c = "CDN" -> StrVal(JoinCell(r.cdn))
          [] c = "Web_Server" -> StrVal(JoinCell(r.web_server))
          [] c = "Landing_Page_Builder_CMS" -> StrVal(JoinCell(r.landing_page_builder_cms))
          [] c = "Operating_System" -> StrVal(JoinCell(r.operating_system))
          [] c = "Web_Framework" -> StrVal(JoinCell(r.web_framework))
          [] c = "whatcms_response" -> StrVal(r.whatcms_response)]

ResponsesToDataframe(responses) == [k \in 1..Len(responses) |-> Row(responses[k])]

\* save_output: returns [exc, saved]
SaveOutput(ext, writable, rows) ==
    IF ext \notin {"csv", "xlsx"} THEN [exc |-> Exc(M_Unsupported), saved |-> NotSaved]
    ELSE IF ~writable THEN [exc |-> Exc(M_Write), saved |-> NotSaved]
    ELSE [exc |-> NoExc, saved |-> [written |-> TRUE, rows |-> rows]]

WorkflowEndNoFinally(exc, n) ==
    [pc |-> IF exc.raised THEN "failed" ELSE "done",
     raised |-> exc,
     closeCount |-> IF exc.raised THEN n ELSE n + 1]

\* how run_enrichment_workflow ends: the except clause re-raises exc, the
\* finally clause calls self.client.close()
WorkflowEnd(exc, n) ==
    [pc |-> IF exc.raised THEN "failed" ELSE "done",
     raised |-> exc,
     closeCount |-> n + 1]

-----------------------------------------------------------------------------
(* Workflow run: run_enrichment_workflow on a bounded input table *)

U_a == <<"a", ".", "c", "o", "m">>
U_b == <<"b", ".", "c", "o", "m">>
U_c == <<"c", ".", "c", "o", "m">>

Urls == {U_a, U_b, U_c}

Tables ==
    { [column |-> c, urls |-> u] :
        c \in {"url", "website"},
        u \in UNION {[1..n -> Urls] : n \in 0..MaxUrls} }

GoodBody ==
    DictBody(StrVal(U_Link), ResultDict(IntVal(200), StrVal(R_Success)),
             [t |-> "list", items |->
                 <<DictEntry(StrVal(N_Ng), StrVal(V_1), StrList(<<L_CDN>>)),
                   DictEntry(StrVal(N_Ng), Absent, StrList(<<L_Web, L_Server>>))>>])

PartialBody ==
    DictBody(StrVal(U_Link), ResultDict(IntVal(200), StrVal(R_Success)),
             [t |-> "list", items |->
                 <<DictEntry(StrVal(N_Ng), StrVal(V_1), StrList(<<L_CDN>>)), NonDictEntry>>])

FetchOutcomes ==
    { Defect, Transport(M_Timeout), Response(429, OtherBody("undecodable")),
      Response(HTTP_OK, GoodBody), Response(HTTP_OK, PartialBody) }

Init ==
    /\ pc = "start"
    /\ df = NoTable
    /\ idx = 0
    /\ results = <<>>
    /\ callLog = <<>>
    /\ closeCount = 0
    /\ raised = NoExc
    /\ enriched_df = <<>>
    /\ saved = NotSaved
    /\ IdleParser
    /\ IdleClean

Finish(exc) ==
    LET e == WorkflowEnd(exc, closeCount)
    IN  /\ pc' = e.pc
        /\ raised' = e.raised
        /\ closeCount' = e.closeCount

\* self.load_input_data(input_file, sheet_name)
Load ==
    /\ pc = "start"
    /\ \E ext \in {"xlsx", "csv", "other"}, readable \in BOOLEAN, table \in Tables :
          LET l == LoadInputData(ext, readable, table)
          IN  IF l.exc.raised
              THEN /\ Finish(l.exc)
                   /\ UNCHANGED df
              ELSE /\ df' = l.df
                   /\ pc' = "loaded"
                   /\ UNCHANGED <<raised, closeCount>>
    /\ UNCHANGED <<idx, results, callLog, enriched_df, saved, parserVars, cleanVars>>

\* enrich_dataframe up to the call of enrich_urls
CheckColumn ==
    /\ pc = "loaded"
    /\ IF HasColumn(df, UrlColumn)
       THEN /\ pc' = "enriching"
            /\ UNCHANGED <<raised, closeCount>>
       ELSE Finish(Exc(M_Column))
    /\ UNCHANGED <<df, idx, results, callLog, enriched_df, saved, parserVars, cleanVars>>

\* one iteration of the loop of enrich_urls
EnrichUrl ==
    /\ pc = "enriching"
    /\ idx < Len(df.urls)
    /\ \E o \in FetchOutcomes :
          LET url == df.urls[idx + 1]
              r == FetchCmsData(url, o)
          IN  /\ results' = EnrichOne(results, r)
              /\ callLog' = Append(callLog,
                     [url |-> url, outcome |-> o, raised |-> r.exc.raised,
                      record |-> r.record, requests |-> r.requests, sleeps |-> r.sleeps,
                      closedBefore |-> closeCount])
    /\ idx' = idx + 1
    /\ UNCHANGED <<pc, df, closeCount, raised, enriched_df, saved, parserVars, cleanVars>>

\* enrich_urls returns; enrich_dataframe converts the responses
Flatten ==
    /\ pc = "enriching"
    /\ idx = Len(df.urls)
    /\ enriched_df' = ResponsesToDataframe(results)
    /\ pc' = "enriched"
    /\ UNCHANGED <<df, idx, results, callLog, closeCount, raised, saved, parserVars, cleanVars>>

\* self.save_output(enriched_df, output_file), then the end of the workflow
Save ==
    /\ pc = "enriched"
    /\ \E ext \in {"csv", "xlsx", "other"}, writable \in BOOLEAN :
          LET s == SaveOutput(ext, writable, enriched_df)
          IN  /\ saved' = s.saved
              /\ Finish(s.exc)
    /\ UNCHANGED <<df, idx, results, callLog, enriched_df, parserVars, cleanVars>>

Next == Load \/ CheckColumn \/ EnrichUrl \/ Flatten \/ Save

Spec == Init /\ [][Next]_vars

-----------------------------------------------------------------------------
(* Claims about the workflow run *)

Calls == 1..Len(callLog)

NoDefectSoFar == \A k \in Calls : callLog[k].outcome.kind # "defect"

AllFieldsEmpty(r) == \A f \in FieldNames : r[f] = <<>>

\* C1: when no fetch ends by an exception leaving fetch_cms_data, enrich_urls
\* has one record per URL processed, the i-th record carrying the i-th URL,
\* and returns exactly len(urls) records.
C1_OneRecordPerUrl ==
    NoDefectSoFar =>
        /\ Len(results) = idx
        /\ \A i \in 1..Len(results) : results[i].url = df.urls[i]
        /\ pc \in {"enriched", "done"} => Len(results) = Len(df.urls)

\* three URLs, the middle one failing by a transport error, three records
C1_Witness ==
    /\ pc = "enriched"
    /\ df.urls = <<U_a, U_b, U_c>>
    /\ callLog[2].outcome.kind = "transport"
    /\ NoDefectSoFar
    /\ Len(results) = 3
    /\ StartsWith(results[2].whatcms_response, S_Error)

\* C2: every call of fetch_cms_data that issued its request sleeps exactly
\* once before it returns, whether the request ended in HTTP 200, another
\* status or a transport failure.
C2_SleepOnEveryOutcome ==
    \A k \in Calls :
        callLog[k].outcome.kind \in {"response", "transport"} => callLog[k].sleeps = 1

\* C3: run_enrichment_workflow closes the session exactly once when it ends,
\* never before, no fetch follows the close, and a failed run (load failure,
\* missing column, save failure) carries its exception to the caller.
C3_ClosedOnce ==
    /\ pc \in {"done", "failed"} => closeCount = 1
    /\ pc \notin {"done", "failed"} => closeCount = 0
    /\ \A k \in Calls : callLog[k].closedBefore = 0
    /\ pc = "failed" <=> raised.raised
    /\ pc = "done" => saved.written

\* a save failure after fetches: closed once, the error propagated
C3_Witness ==
    /\ pc = "failed"
    /\ raised = Exc(M_Unsupported)
    /\ Len(callLog) >= 2
    /\ closeCount = 1

\* C4: a table without the URL column makes enrich_dataframe raise before
\* any fetch: no fetch_cms_data call, no HTTP request, no record, no output.
C4_NoFetchWithoutColumn ==
    (df # NoTable /\ df.column # UrlColumn /\ pc # "loaded") =>
        /\ pc = "failed"
        /\ raised = Exc(M_Column)
        /\ callLog = <<>>
        /\ results = <<>>
        /\ enriched_df = <<>>
        /\ ~saved.written

C4_Witness ==
    /\ df.column = "website"
    /\ Len(df.urls) >= 1
    /\ pc = "failed"
    /\ raised = Exc(M_Column)

\* C5: a call whose request does not end in HTTP 200 returns, without
\* raising, a record with the nine fields and the lookup link empty and the
\* status note "Error: <status code>" or "Error: <exception message>".
C5_ErrorRecord ==
    \A k \in Calls :
        LET c == callLog[k]
            non200 == c.outcome.kind = "response" /\ c.outcome.status # HTTP_OK
        IN  (c.outcome.kind = "transport" \/ non200) =>
                /\ ~c.raised
                /\ AllFieldsEmpty(c.record)
                /\ c.record.whatcms_link = StrVal(<<>>)
                /\ c.record.url = c.url
                /\ non200 =>
                      c.record.whatcms_response = S_Error \o IntToStr(c.outcome.status)
                /\ (non200 /\ c.outcome.status = 429) =>
                      c.record.whatcms_response =
                          <<"E", "r", "r", "o", "r", ":", " ", "4", "2", "9">>
                /\ c.outcome.kind = "transport" =>
                      c.record.whatcms_response = S_Error \o c.outcome.msg

C5_Witness ==
    \E j, k \in Calls :
        /\ callLog[j].outcome.kind = "transport"
        /\ callLog[k].outcome.kind = "response"
        /\ callLog[k].outcome.status = 429
        /\ callLog[k].record.whatcms_response =
              <<"E", "r", "r", "o", "r", ":", " ", "4", "2", "9">>

\* a failure that does not come from the HTTP layer: an exception raised
\* while building the record, or while parsing a decoded body
LocalFailure(c) ==
    \/ c.outcome.kind = "defect"
    \/ /\ c.outcome.kind = "response"
       /\ c.outcome.status = HTTP_OK
       /\ (c.outcome.body.kind = "list" \/ SomeEntryRaises(c.outcome.body))

RecordsOfReturnedCalls ==
    LET returned == SelectSeq(callLog, LAMBDA c : ~c.raised)
    IN  [k \in 1..Len(returned) |-> returned[k].record]

\* C10 (as stated): every failure that does not come from the HTTP layer
\* drops the URL: no record is emitted for it.
C10_AsStated ==
    Len(results) = Cardinality({k \in Calls : ~LocalFailure(callLog[k])})

\* C10 (amended): a URL is dropped exactly when fetch_cms_data raises, which
\* only an exception raised outside its try block does; an exception raised
\* while parsing the response is caught inside the client and yields a
\* "Parse error: ..." record. The loop goes on after a drop, and the records
\* of the other URLs are returned in input order.
C10_Amended ==
    /\ Len(callLog) = idx
    /\ \A k \in Calls :
          /\ callLog[k].url = df.urls[k]
          /\ callLog[k].raised <=> callLog[k].outcome.kind = "defect"
          /\ (LocalFailure(callLog[k]) /\ ~callLog[k].raised) =>
                StartsWith(callLog[k].record.whatcms_response, S_ParseError)
    /\ results = RecordsOfReturnedCalls
    /\ pc \in {"enriched", "done"} => idx = Len(df.urls)

\* the middle URL of three was dropped and the other two were returned
C10_Witness ==
    /\ pc = "enriched"
    /\ Len(df.urls) = 3
    /\ callLog[2].raised
    /\ Len(results) = 2
    /\ results[1].url = df.urls[1]
    /\ results[2].url = df.urls[3]

====
